---- MODULE Spec2Model ----
(***************************************************************************)
(* Model of the graphik software rasterizer (src/src/lib.rs).              *)
(*                                                                         *)
(* The state is one canvas (GraphikBuilder): its pixel buffer, the record  *)
(* of the last call (its descriptor before and after, the buffer before,   *)
(* for save_as_ppm the file before and after), and the locals of a         *)
(* line_draw call that is in progress.  Whether the build checks integer overflow (a debug build  *)
(* panics, a release build wraps) is not decided by the source: each call  *)
(* that can overflow takes either outcome.                                 *)
(*                                                                         *)
(* Number representation.  i32 values are plain integers (the bounds keep  *)
(* every intermediate far below 2^31).  A usize value is represented by    *)
(* its residue: a representative r >= 0 is the value r, a representative   *)
(* r < 0 is the value 2^64 + r (what `negative_i32 as usize` and a         *)
(* wrapped subtraction produce).                                           *)
(***************************************************************************)
EXTENDS Integers, Sequences, FiniteSets, TLC

VARIABLES buffer, draws, last, frame

vars == <<buffer, draws, last, frame>>

-----------------------------------------------------------------------------
(* Bounds of the model *)

MaxDim == 3
WideDim == 12
MaxCoord == 3
MaxSize == 4
MaxRadius == 3
MaxTri == 2
MaxDraws == 1

Dims == ((1..MaxDim) \X (1..MaxDim)) \cup {<<WideDim, 1>>, <<1, WideDim>>}
Colors == {255, 2130903553}          \* 0x000000FF and 0x7F030201
Coords == (-1)..MaxCoord
Sizes == 0..MaxSize
Radii == 0..MaxRadius
TriCoords == (-1)..MaxTri

-----------------------------------------------------------------------------
(* Arithmetic helpers *)

Abs(a) == IF a < 0 THEN -a ELSE a

Min(a, b) == IF a <= b THEN a ELSE b

Max(a, b) == IF a >= b THEN a ELSE b

\* Rust's integer `/` on i32: truncation toward zero (b # 0).
TruncDiv(a, b) ==
    IF (a >= 0) = (b > 0) THEN Abs(a) \div Abs(b) ELSE -(Abs(a) \div Abs(b))

\* `i as usize` for an i32: sign extension; a negative i becomes 2^64 + i,
\* whose representative is i itself.
AsUsize(i) == i

\* `a + b` on usize, with a an `i32 as usize` and b a small count.  The true
\* sum leaves the usize range exactly when a stands for 2^64 + a and a + b
\* reaches 2^64, i.e. a < 0 <= a + b.
UsizeAddOverflows(a, b) == a < 0 /\ a + b >= 0

\* The wrapped sum (release build), as a representative.
UsizeAdd(a, b) == a + b

\* `a < b` on usize with b a buffer dimension: a value 2^64 + r is never less.
UsizeLt(a, b) == a >= 0 /\ a < b

-----------------------------------------------------------------------------
(* GraphikBuffer and its index *)

GraphikBufferNew(w, h) ==
    [width |-> w, height |-> h, buffer |-> [i \in 1..(w * h) |-> 0]]

\* buffer.buffer[y * width + x] (sequences are 1-based)
Idx(buf, x, y) == y * buf.width + x + 1

InBuf(buf, x, y) == 0 <= x /\ x < buf.width /\ 0 <= y /\ y < buf.height

PixelAt(buf, x, y) == buf.buffer[Idx(buf, x, y)]

SetPixel(buf, x, y, color) == [buf EXCEPT !.buffer[Idx(buf, x, y)] = color]

fill(buf, color) ==
    [buf EXCEPT !.buffer = [i \in 1..Len(buf.buffer) |-> color]]

\* state of a running call: the buffer written so far and whether it panicked
Run(buf) == [buf |-> buf, panicked |-> FALSE]

Panic(st) == [st EXCEPT !.panicked = TRUE]

-----------------------------------------------------------------------------
(* rect_fill *)

\* GraphikRect::origin (module graphik_rect)
RectOrigin(rect, x0, y0) == [rect EXCEPT !.x0 = x0, !.y0 = y0]

\* get_center: ((canvas - object) / 2) as i32 on usize operands.  With
\* object > canvas the subtraction overflows: a checked build panics, an
\* unchecked one wraps to 2^64 - k (k = object - canvas), halves it to
\* 2^63 - ceil(k/2) and keeps the low 32 bits, the i32 -ceil(k/2).
get_center(canvas, object, checks) ==
    IF canvas >= object
    THEN [panicked |-> FALSE, value |-> (canvas - object) \div 2]
    ELSE IF checks
         THEN [panicked |-> TRUE, value |-> 0]
         ELSE [panicked |-> FALSE, value |-> -((object - canvas + 1) \div 2)]

RECURSIVE rect_cols(_, _, _, _, _)
rect_cols(st, rect, y, dx, checks) ==
    IF st.panicked \/ dx >= rect.width THEN st
    ELSE IF checks /\ UsizeAddOverflows(AsUsize(rect.x0), dx) THEN Panic(st)
    ELSE LET x == UsizeAdd(AsUsize(rect.x0), dx)
             st2 == IF UsizeLt(x, st.buf.width)
                    THEN [st EXCEPT !.buf = SetPixel(st.buf, x, y, rect.color)]
                    ELSE st
         IN rect_cols(st2, rect, y, dx + 1, checks)

RECURSIVE rect_rows(_, _, _, _)
rect_rows(st, rect, dy, checks) ==
    IF st.panicked \/ dy >= rect.height THEN st
    ELSE IF checks /\ UsizeAddOverflows(AsUsize(rect.y0), dy) THEN Panic(st)
    ELSE LET y == UsizeAdd(AsUsize(rect.y0), dy)
             st2 == IF UsizeLt(y, st.buf.height)
                    THEN rect_cols(st, rect, y, 0, checks)
                    ELSE st
         IN rect_rows(st2, rect, dy + 1, checks)

\* result: the descriptor after the call, the buffer, and whether it panicked
rect_fill(buf, rect, checks) ==
    LET cx == get_center(buf.width, rect.width, checks)
        cy == get_center(buf.height, rect.height, checks)
    IN IF rect.center /\ cx.panicked
       THEN [shape |-> rect, buf |-> buf, panicked |-> TRUE]
       ELSE IF rect.center /\ cy.panicked
       THEN [shape |-> rect, buf |-> buf, panicked |-> TRUE]
       ELSE LET r == IF rect.center THEN RectOrigin(rect, cx.value, cy.value)
                     ELSE rect
                st == rect_rows(Run(buf), r, 0, checks)
            IN [shape |-> r, buf |-> st.buf, panicked |-> st.panicked]

-----------------------------------------------------------------------------
(* circle_fill *)

\* GraphikCircle::origin (module graphik_circle)
CircleOrigin(circle, x0, y0) == [circle EXCEPT !.x0 = x0, !.y0 = y0]

\* for x in x1..x2 (half-open) on row y
RECURSIVE circle_cols(_, _, _, _, _)
circle_cols(buf, circle, y, x, x2) ==
    IF x >= x2 THEN buf
    ELSE LET dx == x - circle.x0
             dy == y - circle.y0
             hit == /\ 0 <= x /\ x < buf.width
                    /\ (dx * dx + dy * dy) <= circle.radius * circle.radius
         IN circle_cols(IF hit THEN SetPixel(buf, x, y, circle.color) ELSE buf,
                        circle, y, x + 1, x2)

\* for y in y1..y2 (half-open)
RECURSIVE circle_rows(_, _, _, _, _, _)
circle_rows(buf, circle, y, y2, x1, x2) ==
    IF y >= y2 THEN buf
    ELSE circle_rows(IF 0 <= y /\ y < buf.height
                     THEN circle_cols(buf, circle, y, x1, x2)
                     ELSE buf,
                     circle, y + 1, y2, x1, x2)

circle_fill(buf, circle) ==
    LET c == IF circle.center
             THEN CircleOrigin(circle, buf.width \div 2, buf.height \div 2)
             ELSE circle
        x1 == c.x0 - c.radius
        y1 == c.y0 - c.radius
        x2 == c.x0 + c.radius
        y2 == c.y0 + c.radius
    IN [shape |-> c, buf |-> circle_rows(buf, c, y1, y2, x1, x2),
        panicked |-> FALSE]

-----------------------------------------------------------------------------
(* triangle_fill *)

\* for x in s1..=s2 on row y
RECURSIVE tri_span(_, _, _, _, _)
tri_span(buf, y, x, s2, color) ==
    IF x > s2 THEN buf
    ELSE tri_span(IF 0 <= x /\ x < buf.width THEN SetPixel(buf, x, y, color)
                  ELSE buf,
                  y, x + 1, s2, color)

\* pass 1: for y in y1..=y2
RECURSIVE tri_pass1(_, _, _)
tri_pass1(buf, t, y) ==
    LET dx12 == t.x2 - t.x1
        dy12 == t.y2 - t.y1
        dx13 == t.x3 - t.x1
        dy13 == t.y3 - t.y1
    IN IF y > t.y2 THEN buf
       ELSE IF 0 <= y /\ y < buf.height
       THEN LET s1 == IF dy12 # 0
                      THEN TruncDiv((y - t.y1) * dx12, dy12) + t.x1
                      ELSE t.x1
                s2 == IF dy13 # 0
                      THEN TruncDiv((y - t.y1) * dx13, dy13) + t.x1
                      ELSE t.x1
            IN tri_pass1(tri_span(buf, y, s1, s2, t.color), t, y + 1)
       ELSE tri_pass1(buf, t, y + 1)

\* pass 2: for y in y2..=y3.  The first slope is guarded by dy12 but divides
\* by dy32: with dy12 # 0 and dy32 = 0 the division panics.
RECURSIVE tri_pass2(_, _, _)
tri_pass2(st, t, y) ==
    LET dy12 == t.y2 - t.y1
        dx32 == t.x2 - t.x3
        dy32 == t.y2 - t.y3
        dx31 == t.x1 - t.x3
        dy31 == t.y1 - t.y3
    IN IF st.panicked \/ y > t.y3 THEN st
       ELSE IF 0 <= y /\ y < st.buf.height
       THEN IF dy12 # 0 /\ dy32 = 0 THEN Panic(st)
            ELSE LET s1 == IF dy12 # 0
                           THEN TruncDiv((y - t.y3) * dx32, dy32) + t.x3
                           ELSE t.x3
                     s2 == IF dy31 # 0
                           THEN TruncDiv((y - t.y3) * dx31, dy31) + t.x3
                           ELSE t.x3
                 IN tri_pass2([st EXCEPT
                                 !.buf = tri_span(st.buf, y, s1, s2, t.color)],
                              t, y + 1)
       ELSE tri_pass2(st, t, y + 1)

triangle_fill(buf, t) ==
    LET st == tri_pass2(Run(tri_pass1(buf, t, t.y1)), t, t.y2)
    IN [shape |-> t, buf |-> st.buf, panicked |-> st.panicked]

-----------------------------------------------------------------------------
(* line_draw *)

\* GraphikLine::vertical (module graphik_line): both x pinned, y as given
LineVertical(line, x, y0, y1) ==
    [line EXCEPT !.x0 = x, !.x1 = x, !.y0 = y0, !.y1 = y1]

\* GraphikLine::horizontal (module graphik_line): both y pinned, x as given
LineHorizontal(line, y, x0, x1) ==
    [line EXCEPT !.y0 = y, !.y1 = y, !.x0 = x0, !.x1 = x1]

\* variant: the horizontal flag is looked at first
process_line_vertices_horizontal_first(line, width, height) ==
    IF line.center
    THEN IF line.horizontal
         THEN LineHorizontal(line, height \div 2, line.x0, line.x1)
         ELSE IF line.vertical
              THEN LineVertical(line, width \div 2, line.y0, line.y1)
              ELSE line
    ELSE line

process_line_vertices(line, width, height) ==
    IF line.center
    THEN IF line.vertical
         THEN LineVertical(line, width \div 2, line.y0, line.y1)
         ELSE IF line.horizontal
              THEN LineHorizontal(line, height \div 2, line.x0, line.x1)
              ELSE line
    ELSE line

\* the locals of line_draw before the loop
line_locals(line) ==
    [x0 |-> line.x0, y0 |-> line.y0, x1 |-> line.x1, y1 |-> line.y1,
     dx |-> Abs(line.x1 - line.x0), dy |-> Abs(line.y1 - line.y0),
     sx |-> IF line.x0 < line.x1 THEN 1 ELSE -1,
     sy |-> IF line.y0 < line.y1 THEN 1 ELSE -1,
     err |-> Abs(line.x1 - line.x0) - Abs(line.y1 - line.y0)]

\* while x0 != x1 || y0 != y1
line_continues(loc) == loc.x0 # loc.x1 \/ loc.y0 # loc.y1

\* the plot at the head of the loop body
line_plot(buf, loc, color) ==
    IF InBuf(buf, loc.x0, loc.y0) THEN SetPixel(buf, loc.x0, loc.y0, color)
    ELSE buf

\* variant: the x move is taken on e2 > dy (the sign of dy is lost)
line_advance_sign_slip(loc) ==
    LET e2 == 2 * loc.err
        mx == e2 > loc.dy
        my == e2 < loc.dx
    IN [loc EXCEPT
          !.err = loc.err - (IF mx THEN loc.dy ELSE 0)
                          + (IF my THEN loc.dx ELSE 0),
          !.x0 = IF mx THEN loc.x0 + loc.sx ELSE loc.x0,
          !.y0 = IF my THEN loc.y0 + loc.sy ELSE loc.y0]

\* the error update and the moves of one loop body
line_advance(loc) ==
    LET e2 == 2 * loc.err
        mx == e2 > -loc.dy
        my == e2 < loc.dx
    IN [loc EXCEPT
          !.err = loc.err - (IF mx THEN loc.dy ELSE 0)
                          + (IF my THEN loc.dx ELSE 0),
          !.x0 = IF mx THEN loc.x0 + loc.sx ELSE loc.x0,
          !.y0 = IF my THEN loc.y0 + loc.sy ELSE loc.y0]

-----------------------------------------------------------------------------
(* save_as_ppm *)

RECURSIVE Decimal(_)
\* `{}` of a usize: decimal digits, no padding (ASCII codes)
Decimal(n) ==
    IF n < 10 THEN <<48 + n>> ELSE Decimal(n \div 10) \o <<48 + (n % 10)>>

\* format!("P6\n{} {} 255\n", width, height)
header_bytes(w, h) ==
    <<80, 54, 10>> \o Decimal(w) \o <<32>> \o Decimal(h) \o <<32, 50, 53, 53, 10>>

\* variant: the components in the order c2, c1, c0
pixel_bytes_reversed(pixel) ==
    <<(pixel \div 65536) % 256, (pixel \div 256) % 256, pixel % 256>>

\* [pixel & 0xff, (pixel >> 8) & 0xff, (pixel >> 16) & 0xff]
pixel_bytes(pixel) ==
    <<pixel % 256, (pixel \div 256) % 256, (pixel \div 65536) % 256>>

\* One write_all call, the k-th of the save (0 = header).  The script io
\* says which call fails and how many of its bytes reached the file first.
write_all(st, bytes, k, io) ==
    IF io.failAt = k
    THEN [st EXCEPT !.bytes = st.bytes \o SubSeq(bytes, 1, io.partial),
                    !.writes = st.writes + 1,
                    !.result = "FileWriteError"]
    ELSE [st EXCEPT !.bytes = st.bytes \o bytes, !.writes = st.writes + 1]

\* variant: a failed write does not end the loop
RECURSIVE save_pixels_keeps_writing(_, _, _, _)
save_pixels_keeps_writing(st, pixels, i, io) ==
    IF i > Len(pixels) THEN st
    ELSE save_pixels_keeps_writing(write_all(st, pixel_bytes(pixels[i]), i, io),
                                   pixels, i + 1, io)

\* for pixel in buffer.buffer.iter() { write_all(..)? }
RECURSIVE save_pixels(_, _, _, _)
save_pixels(st, pixels, i, io) ==
    IF st.result # "Ok" \/ i > Len(pixels) THEN st
    ELSE save_pixels(write_all(st, pixel_bytes(pixels[i]), i, io),
                     pixels, i + 1, io)

\* result: the Result, the file afterwards, the number of write_all calls
save_as_ppm(buf, f, io) ==
    IF ~io.openOk
    THEN [result |-> "FileOpenError", file |-> f, writes |-> 0]
    ELSE LET opened == [result |-> "Ok", bytes |-> <<>>, writes |-> 0]
             hdr == write_all(opened, header_bytes(buf.width, buf.height), 0, io)
             st == save_pixels(hdr, buf.buffer, 1, io)
         IN [result |-> st.result,
             file |-> [exists |-> TRUE, bytes |-> st.bytes],
             writes |-> st.writes]

-----------------------------------------------------------------------------
(* State machine: construction, fill and the calls *)

NoFile == [exists |-> FALSE, bytes |-> <<>>]

NoFrame == [pc |-> "idle"]

InitCanvas ==
    /\ \E d \in Dims : buffer = GraphikBufferNew(d[1], d[2])
    /\ draws = 0
    /\ last = [op |-> "new", panicked |-> FALSE]

Init == InitCanvas /\ frame = NoFrame

Alive == ~last.panicked /\ frame.pc = "idle"

Fill ==
    /\ Alive
    /\ \E color \in Colors :
        /\ buffer' = fill(buffer, color)
        /\ last' = [op |-> "fill", panicked |-> FALSE, color |-> color]
    /\ UNCHANGED <<draws, frame>>

Rects ==
    [x0 : Coords, y0 : Coords, width : Sizes, height : Sizes,
     color : Colors, center : BOOLEAN]

RectFillOf(S) ==
    /\ Alive
    /\ draws < MaxDraws
    /\ \E rect \in S, checks \in BOOLEAN :
        LET r == rect_fill(buffer, rect, checks)
        IN /\ buffer' = r.buf
           /\ last' = [op |-> "rect_fill", panicked |-> r.panicked,
                       arg |-> rect, shape |-> r.shape, pre |-> buffer,
                       checks |-> checks]
    /\ draws' = draws + 1
    /\ UNCHANGED frame

RectFill == RectFillOf(Rects)

NextRect == Fill \/ RectFill

SpecRect == Init /\ [][NextRect]_vars

Circles ==
    [x0 : Coords, y0 : Coords, radius : Radii, color : Colors,
     center : BOOLEAN]

CircleFill ==
    /\ Alive
    /\ draws < MaxDraws
    /\ \E circle \in Circles :
        LET r == circle_fill(buffer, circle)
        IN /\ buffer' = r.buf
           /\ last' = [op |-> "circle_fill", panicked |-> r.panicked,
                       arg |-> circle, shape |-> r.shape, pre |-> buffer]
    /\ draws' = draws + 1
    /\ UNCHANGED frame

NextCircle == Fill \/ CircleFill

SpecCircle == Init /\ [][NextCircle]_vars

Triangles ==
    [x1 : TriCoords, y1 : TriCoords, x2 : TriCoords, y2 : TriCoords,
     x3 : TriCoords, y3 : TriCoords, color : Colors]

TriangleFill ==
    /\ Alive
    /\ draws < MaxDraws
    /\ \E t \in Triangles :
        LET r == triangle_fill(buffer, t)
        IN /\ buffer' = r.buf
           /\ last' = [op |-> "triangle_fill", panicked |-> r.panicked,
                       arg |-> t, shape |-> r.shape, pre |-> buffer]
    /\ draws' = draws + 1
    /\ UNCHANGED frame

NextTriangle == Fill \/ TriangleFill

SpecTriangle == Init /\ [][NextTriangle]_vars

(* One call of line_draw, statement by statement; the descriptor of the    *)
(* call is drawn with the canvas.                                          *)

LineColors == {255}

Lines ==
    [x0 : Coords, y0 : Coords, x1 : Coords, y1 : Coords, color : LineColors,
     center : BOOLEAN, vertical : BOOLEAN, horizontal : BOOLEAN]

InitLine ==
    /\ InitCanvas
    /\ \E line \in Lines : frame = [pc |-> "entry", arg |-> line]

\* lines 179-190: centring and the locals
LineEnter ==
    /\ frame.pc = "entry"
    /\ LET line == process_line_vertices(frame.arg, buffer.width, buffer.height)
       IN frame' = [pc |-> "loop", arg |-> frame.arg, line |-> line,
                    loc |-> line_locals(line), iters |-> 0,
                    prev |-> <<line.x0, line.y0>>, pre |-> buffer]
    /\ UNCHANGED <<buffer, draws, last>>

\* lines 192-206: one iteration of the loop
LineStep ==
    /\ frame.pc = "loop"
    /\ line_continues(frame.loc)
    /\ buffer' = line_plot(buffer, frame.loc, frame.line.color)
    /\ frame' = [frame EXCEPT !.loc = line_advance(frame.loc),
                              !.iters = frame.iters + 1,
                              !.prev = <<frame.loc.x0, frame.loc.y0>>]
    /\ UNCHANGED <<draws, last>>

\* the loop condition is false: line_draw returns
LineReturn ==
    /\ frame.pc = "loop"
    /\ ~line_continues(frame.loc)
    /\ last' = [op |-> "line_draw", panicked |-> FALSE, arg |-> frame.arg,
                shape |-> frame.line, pre |-> frame.pre,
                iters |-> frame.iters]
    /\ frame' = NoFrame
    /\ draws' = draws + 1
    /\ UNCHANGED buffer

NextLine == LineEnter \/ LineStep \/ LineReturn

SpecLine == InitLine /\ [][NextLine]_vars

(* save_as_ppm after fills and small rectangles *)

SmallRects ==
    [x0 : 0..1, y0 : 0..1, width : {1}, height : {1}, color : Colors,
     center : {FALSE}]

PaintRect == RectFillOf(SmallRects)

HeaderLen(buf) == Len(header_bytes(buf.width, buf.height))

\* what the file system may do: refuse the open, or fail the k-th write_all
\* (0 = header, i = pixel i) after `partial` of its bytes
IoScripts(buf) ==
    {[openOk |-> FALSE, failAt |-> -1, partial |-> 0],
     [openOk |-> TRUE, failAt |-> -1, partial |-> 0]}
    \cup [openOk : {TRUE}, failAt : {0}, partial : 0..(HeaderLen(buf) - 1)]
    \cup [openOk : {TRUE}, failAt : 1..Len(buf.buffer), partial : 0..2]

\* what file_path may name before the call: nothing, or an older file
PriorFiles == {NoFile, [exists |-> TRUE, bytes |-> <<80, 54, 10, 7>>]}

\* A save straight after a save is left out: the buffer is the same and
\* `last` is rewritten, so it reaches exactly the states the first one does.
SaveAsPpm ==
    /\ Alive
    /\ last.op # "save_as_ppm"
    /\ \E io \in IoScripts(buffer), prior \in PriorFiles :
        LET r == save_as_ppm(buffer, prior, io)
        IN last' = [op |-> "save_as_ppm", panicked |-> FALSE, io |-> io,
                    result |-> r.result, writes |-> r.writes,
                    pre |-> buffer, prefile |-> prior, file |-> r.file]
    /\ UNCHANGED <<buffer, draws, frame>>

NextSave == Fill \/ PaintRect \/ SaveAsPpm

SpecSave == Init /\ [][NextSave]_vars

-----------------------------------------------------------------------------
(* Properties *)

IsCall(op) == last.op = op

Sorted(t) == t.y1 <= t.y2 /\ t.y2 <= t.y3

Pixels(buf) == {xy \in (0..(buf.width - 1)) \X (0..(buf.height - 1)) : TRUE}

\* C1: line_draw with center=false and both endpoints inside the buffer
\* leaves the start pixel and the end pixel set to the line colour.
C1_EndpointsColoured ==
    (/\ IsCall("line_draw")
     /\ ~last.arg.center
     /\ InBuf(buffer, last.arg.x0, last.arg.y0)
     /\ InBuf(buffer, last.arg.x1, last.arg.y1))
    => /\ PixelAt(buffer, last.arg.x0, last.arg.y0) = last.arg.color
       /\ PixelAt(buffer, last.arg.x1, last.arg.y1) = last.arg.color

\* C2: circle_fill with center=false sets a pixel of the buffer to the circle
\* colour iff (x-x0)^2 + (y-y0)^2 <= radius^2 and leaves every other pixel
\* as it was.
C2_CircleIffDistance ==
    (IsCall("circle_fill") /\ ~last.arg.center)
    => \A xy \in Pixels(buffer) :
         LET c == last.arg
             dx == xy[1] - c.x0
             dy == xy[2] - c.y0
         IN PixelAt(buffer, xy[1], xy[2]) =
              IF dx * dx + dy * dy <= c.radius * c.radius
              THEN c.color
              ELSE PixelAt(last.pre, xy[1], xy[2])

\* C3: triangle_fill on vertices with y1 <= y2 <= y3 completes without a
\* runtime fault.
C3_TriangleNoFault ==
    (IsCall("triangle_fill") /\ Sorted(last.arg)) => ~last.panicked

\* C4: rect_fill with center=false completes and sets exactly the pixels of
\* the box [x0,x0+width) x [y0,y0+height) that lie in the buffer; every other
\* pixel keeps its value.
C4_RectExactBox ==
    (IsCall("rect_fill") /\ ~last.arg.center)
    => /\ ~last.panicked
       /\ \A xy \in Pixels(buffer) :
            LET r == last.arg
                inBox == /\ r.x0 <= xy[1] /\ xy[1] < r.x0 + r.width
                         /\ r.y0 <= xy[2] /\ xy[2] < r.y0 + r.height
            IN PixelAt(buffer, xy[1], xy[2]) =
                 IF inBox THEN r.color ELSE PixelAt(last.pre, xy[1], xy[2])

\* C6: after triangle_fill on vertices with y1 <= y2 <= y3, on every scanline
\* y in [y1,y2] of the buffer every pixel with min(s1,s2) <= x <= max(s1,s2)
\* has the triangle colour (s1, s2 the truncated edge interpolations).
C6_Pass1Span ==
    (IsCall("triangle_fill") /\ Sorted(last.arg) /\ ~last.panicked)
    => \A xy \in Pixels(buffer) :
         LET t == last.arg
             y == xy[2]
             dy12 == t.y2 - t.y1
             dy13 == t.y3 - t.y1
             s1 == IF dy12 # 0
                   THEN TruncDiv((y - t.y1) * (t.x2 - t.x1), dy12) + t.x1
                   ELSE t.x1
             s2 == IF dy13 # 0
                   THEN TruncDiv((y - t.y1) * (t.x3 - t.x1), dy13) + t.x1
                   ELSE t.x1
         IN (/\ t.y1 <= y /\ y <= t.y2
             /\ Min(s1, s2) <= xy[1] /\ xy[1] <= Max(s1, s2))
            => PixelAt(buffer, xy[1], y) = t.color

\* C7: rect_fill with center=true, for all sizes, completes with the origin
\* x0 = (buffer.width - rect.width)/2, y0 = (buffer.height - rect.height)/2
\* under truncating division, so the margins on opposite sides differ by at
\* most one pixel.
C7_CentredOrigin ==
    (IsCall("rect_fill") /\ last.arg.center)
    => /\ ~last.panicked
       /\ last.shape.x0 = TruncDiv(buffer.width - last.arg.width, 2)
       /\ last.shape.y0 = TruncDiv(buffer.height - last.arg.height, 2)
       /\ Abs(last.shape.x0
              - (buffer.width - (last.shape.x0 + last.arg.width))) <= 1
       /\ Abs(last.shape.y0
              - (buffer.height - (last.shape.y0 + last.arg.height))) <= 1
\* the decimal number a digit string denotes
RECURSIVE ParseDecimal(_)
ParseDecimal(ds) ==
    IF Len(ds) = 0 THEN 0
    ELSE 10 * ParseDecimal(SubSeq(ds, 1, Len(ds) - 1)) + (ds[Len(ds)] - 48)

IsDecimalOf(ds, n) ==
    /\ Len(ds) >= 1
    /\ \A i \in 1..Len(ds) : ds[i] \in 48..57
    /\ (Len(ds) > 1 => ds[1] # 48)
    /\ ParseDecimal(ds) = n

\* hs is "P6\n<w> <h> 255\n"
IsHeader(hs, w, h) ==
    \E i \in 4..Len(hs), j \in 4..Len(hs) :
        /\ i < j
        /\ SubSeq(hs, 1, 3) = <<80, 54, 10>>
        /\ IsDecimalOf(SubSeq(hs, 4, i - 1), w)
        /\ hs[i] = 32
        /\ IsDecimalOf(SubSeq(hs, i + 1, j - 1), h)
        /\ SubSeq(hs, j, Len(hs)) = <<32, 50, 53, 53, 10>>

\* bits [8k, 8k+8) of a pixel
Component(pixel, k) ==
    IF k = 0 THEN pixel % 256
    ELSE IF k = 1 THEN (pixel \div 256) % 256
    ELSE (pixel \div 65536) % 256

NumDigits(n) == IF n < 10 THEN 1 ELSE IF n < 100 THEN 2 ELSE 3

SaveSucceeds == IsCall("save_as_ppm") /\ last.io.openOk /\ last.io.failAt = -1

\* C5: when every file operation succeeds the file is the header
\* "P6\n<width> <height> 255\n" followed by width*height*3 bytes, for each
\* pixel in index order its bits [0,8), [8,16), [16,24).
C5_PpmContent ==
    SaveSucceeds
    => LET b == last.file.bytes
           n == buffer.width * buffer.height
           hl == Len(b) - 3 * n
       IN /\ hl > 0
          /\ IsHeader(SubSeq(b, 1, hl), buffer.width, buffer.height)
          /\ \A i \in 0..(n - 1), k \in 0..2 :
               b[hl + 3 * i + k + 1] = Component(buffer.buffer[i + 1], k)

\* a successful save of a wide buffer whose pixels differ, one of them with
\* bits above bit 23 set
C5_Witness ==
    /\ SaveSucceeds
    /\ buffer.width = WideDim
    /\ \E i, j \in 1..Len(buffer.buffer) :
         /\ i < j
         /\ buffer.buffer[i] # buffer.buffer[j]
         /\ buffer.buffer[i] >= 16777216

\* C8: a refused open gives FileOpenError and writes nothing; a failed write
\* gives FileWriteError at once, with no later write and the earlier bytes
\* left in the file; Ok only when the header and all pixel writes succeeded;
\* the pixel buffer is unchanged in every outcome.
C8_SaveOutcomes ==
    IsCall("save_as_ppm")
    => LET io == last.io
           b == last.file.bytes
           n == Len(buffer.buffer)
           hl == 3 + NumDigits(buffer.width) + 1 + NumDigits(buffer.height) + 5
       IN /\ buffer = last.pre
          /\ ~io.openOk
               => /\ last.result = "FileOpenError"
                  /\ last.writes = 0
                  /\ last.file = last.prefile
          /\ (io.openOk /\ io.failAt >= 0)
               => /\ last.result = "FileWriteError"
                  /\ last.writes = io.failAt + 1
                  /\ Len(b) = IF io.failAt = 0 THEN io.partial
                              ELSE hl + 3 * (io.failAt - 1) + io.partial
                  /\ \A p \in (hl + 1)..Len(b) :
                       b[p] = Component(buffer.buffer[((p - hl - 1) \div 3) + 1],
                                        (p - hl - 1) % 3)
          /\ (last.result = "Ok") = (io.openOk /\ io.failAt = -1)
          /\ last.result = "Ok" => (last.writes = n + 1 /\ Len(b) = hl + 3 * n)

\* a pixel write in the middle fails after some of its bytes, over an older
\* file
C8_Witness ==
    /\ IsCall("save_as_ppm")
    /\ last.result = "FileWriteError"
    /\ last.io.failAt > 1
    /\ last.io.failAt < Len(buffer.buffer)
    /\ last.io.partial > 0
    /\ last.prefile.exists

C9Expected(a, l, w, h) ==
    IF a.center /\ a.vertical
    THEN l.x0 = w \div 2 /\ l.x1 = w \div 2 /\ l.y0 = a.y0 /\ l.y1 = a.y1
    ELSE IF a.center /\ a.horizontal
    THEN l.y0 = h \div 2 /\ l.y1 = h \div 2 /\ l.x0 = a.x0 /\ l.x1 = a.x1
    ELSE l.x0 = a.x0 /\ l.x1 = a.x1 /\ l.y0 = a.y0 /\ l.y1 = a.y1

\* C9: before the loop, center with vertical pins x0 = x1 = width/2 and keeps
\* y0, y1 whatever horizontal says; center with horizontal only pins
\* y0 = y1 = height/2 and keeps x0, x1; otherwise nothing changes.
C9_LineCentring ==
    (frame.pc = "loop" /\ frame.iters = 0)
    => /\ C9Expected(frame.arg, frame.line, buffer.width, buffer.height)
       /\ frame.loc.x0 = frame.line.x0 /\ frame.loc.y0 = frame.line.y0
       /\ frame.loc.x1 = frame.line.x1 /\ frame.loc.y1 = frame.line.y1

\* both flags set, on a line that lies on neither centre line
C9_Witness ==
    /\ frame.pc = "loop"
    /\ frame.iters = 0
    /\ frame.arg.center /\ frame.arg.vertical /\ frame.arg.horizontal
    /\ frame.arg.x0 # buffer.width \div 2
    /\ frame.arg.x1 # buffer.width \div 2
    /\ frame.arg.y0 # buffer.height \div 2
    /\ frame.arg.y1 # buffer.height \div 2
    /\ frame.arg.y0 # frame.arg.y1

Between(a, v, b) == Min(a, b) <= v /\ v <= Max(a, b)

\* C10: the loop reaches exactly (x1,y1) after at most max(|x1-x0|,|y1-y0|)
\* iterations, never leaves the range between start and target on either
\* axis, and moves by at most one on each axis per iteration.
C10_LoopTerminates ==
    frame.pc = "loop"
    => LET loc == frame.loc
           l == frame.line
           bound == Max(Abs(l.x1 - l.x0), Abs(l.y1 - l.y0))
       IN /\ frame.iters <= bound
          /\ frame.iters = bound => ~line_continues(loc)
          /\ Between(l.x0, loc.x0, l.x1)
          /\ Between(l.y0, loc.y0, l.y1)
          /\ Abs(loc.x0 - frame.prev[1]) <= 1
          /\ Abs(loc.y0 - frame.prev[2]) <= 1

\* a steep line that starts off the canvas has arrived after several steps
C10_Witness ==
    /\ frame.pc = "loop"
    /\ ~line_continues(frame.loc)
    /\ frame.iters >= 3
    /\ frame.line.x0 < 0
    /\ frame.line.x0 # frame.line.x1
    /\ Abs(frame.line.y1 - frame.line.y0) > Abs(frame.line.x1 - frame.line.x0)

====
